---- MODULE Spec2Model ----
(***************************************************************************)
(* State-machine model of the DICOM Image Region Trender (DIRT) viewer,    *)
(* website/dirt/dirt.py: class DICOMViewer, and of the upload endpoint of  *)
(* website/bone_subtraction/app.py: index().                               *)
(*                                                                         *)
(* Conventions                                                             *)
(*  - ROI centre coordinates are kept in half pixels (pos2 = 2 * pos): the *)
(*    radius is roi_diameter / 2, so every quantity of the bounding-box    *)
(*    computation is a multiple of 1/2 once the centre is.                 *)
(*  - Window bounds lower/upper are kept in half units as well             *)
(*    (lower2 = 2 * lower = 2 * level - window).                           *)
(*  - Pixel values are integers (DICOM stored values converted to          *)
(*    float32); means and percentiles are exact rationals num/den.         *)
(*  - Python's int() and numpy's astype(np.uint8) truncate toward zero;    *)
(*    astype(np.uint8) keeps the low 8 bits.                               *)
(***************************************************************************)
EXTENDS Integers, Sequences, FiniteSets, TLC

\* ------------------------------------------------------------ bounds
FrameWidth == 3
FrameHeight == 3
NumSlices == 2
MaxDiameter == 3
MaxWindow == 4
MaxLevel == 2
MaxRows == 2
NumWorkers == 2
NumChunks == 2

\* ------------------------------------------------- program constants
WindowSliderMin == 1
WindowSliderMax == 4096
WindowSliderInit == 128
LevelSliderMin == -4096
LevelSliderMax == 4096
LevelSliderInit == 128
DiameterSliderMin == 1
DiameterSliderMax == 200
DefaultRoiDiameter == 50

\* --------------------------------------------------------- arithmetic
Abs(a) == IF a < 0 THEN -a ELSE a

\* int(a / b) for b > 0: Python's int() truncates toward zero.
TruncDiv(a, b) == IF a >= 0 THEN a \div b ELSE -((-a) \div b)

\* Mutant of Clamp: the slider takes any value it is given.
ClampNothing(v, lo, hi) == v

\* QSlider.setValue: the value is bounded to [lo, hi].
Clamp(v, lo, hi) == IF v < lo THEN lo ELSE IF v > hi THEN hi ELSE v

RECURSIVE GCD(_, _)
GCD(a, b) == IF b = 0 THEN a ELSE GCD(b, a % b)

\* A floating-point number num/den in lowest terms; den = 0 is np.nan.
NaN == [num |-> 0, den |-> 0]

Rat(n, d) ==
    LET g == GCD(Abs(n), d)
    IN  [num |-> n \div g, den |-> d \div g]

IsNaN(v) == v.den = 0

RatLess(a, b) == a.num * b.den < b.num * a.den

RatSub(a, b) == Rat(a.num * b.den - b.num * a.den, a.den * b.den)

\* ------------------------------------------------------- image stack
Pixels == (0 .. FrameWidth - 1) \X (0 .. FrameHeight - 1)

Slices == 0 .. NumSlices - 1

Palette == <<0, 1, 3, 100, 128, 200, 300>>

\* Stored value of pixel (x, y) of frame i of the loaded source.
PixelValue(i, x, y) == Palette[((2 * x + 3 * y + 5 * i) % Len(Palette)) + 1]

\* images = images_np.astype(np.float32): N frames of identical shape.
LoadedStack == [i \in Slices |-> [p \in Pixels |-> PixelValue(i, p[1], p[2])]]

\* ------------------------------------------------------------- state
VARIABLES
    images,             \* self.images
    current_slice,      \* self.current_slice (= slice_slider.value())
    window_slider,      \* window_slider.value()
    level_slider,       \* level_slider.value()
    subtraction_combo,  \* subtraction_combo.currentIndex(); 0 is 'None'
    overlay_checkbox,   \* overlay_checkbox.isChecked()
    roi_diameter,       \* self.roi_diameter (= diameter_slider.value())
    roi_pos2,           \* 2 * roi_item.pos()
    roi_name_input,     \* roi_name_input.text()
    roi_data,           \* self.roi_data: name -> list of per-slice values
    roi_table,          \* rows of self.roi_table
    csv_file,           \* what save_to_csv last wrote
    pixmap,             \* the 8-bit image last put on pixmap_item
    report,             \* outcome of the last button handler
    pc,                 \* position inside auto_window
    upload_folder,      \* app.py: the files of app.config['UPLOAD_FOLDER']
    request             \* app.py: the request each server thread is handling

viewer_vars == <<images, current_slice, window_slider, level_slider,
                 subtraction_combo, overlay_checkbox, roi_diameter, roi_pos2,
                 roi_name_input, roi_data, roi_table, csv_file, pixmap, report, pc>>

server_vars == <<upload_folder, request>>

vars == <<viewer_vars, server_vars>>

\* ------------------------------------------------- display transform
\* Mutant of DisplaySource: the range test of line 365 left out, the index
\* taken round the stack.
DisplaySourceNoRangeTest(imgs, cur, subtraction_index) ==
    IF subtraction_index >= 0
    THEN [p \in Pixels |-> imgs[cur][p] - imgs[subtraction_index % NumSlices][p]]
    ELSE imgs[cur]

\* display_slice: the array that is windowed. subtraction_index is the combo
\* index minus one ('None' is entry 0); an index past the stack falls back to
\* the plain slice.
DisplaySource(imgs, cur, subtraction_index) ==
    IF subtraction_index >= 0
    THEN IF subtraction_index >= NumSlices
         THEN imgs[cur]
         ELSE [p \in Pixels |-> imgs[cur][p] - imgs[subtraction_index][p]]
    ELSE imgs[cur]

\* Mutant of StackAfterDisplay: the subtraction done in place on the frame
\* (current_image = self.images[cur]; current_image -= subtraction_image).
StackSubtractedInPlace(imgs, cur, subtraction_index) ==
    IF subtraction_index >= 0 /\ subtraction_index < NumSlices
    THEN [imgs EXCEPT ![cur] = [p \in Pixels |-> imgs[cur][p] - imgs[subtraction_index][p]]]
    ELSE imgs

\* self.images after display_slice has built its working array: the array is
\* a .copy() of the slice or the fresh result of the binary minus, so the
\* stack itself is not written.
StackAfterDisplay(imgs, cur, subtraction_index) == imgs

\* Mutant of WindowClip: only the lower bound is applied.
WindowClipLowerOnly(v2, lower2, upper2) == IF v2 < lower2 THEN lower2 ELSE v2

\* np.clip(v, lower, upper), all three in half units.
WindowClip(v2, lower2, upper2) ==
    IF v2 < lower2 THEN lower2 ELSE IF v2 > upper2 THEN upper2 ELSE v2

\* astype(np.uint8) of the float num/den: drop the fraction, keep 8 bits.
ToUint8(num, den) == TruncDiv(num, den) % 256

\* Lines 377-392 for one pixel value v: clip to the window, normalise to
\* 0..255 (or subtract lower when the window range is zero), convert to uint8.
\* The quotient is exact here; the float32 quotient of the code is 0 and 255
\* at the two ends exactly and can be one grey level lower where the exact
\* value is a whole number strictly between them.
DisplayTransform(v, window, level) ==
    LET lower2  == 2 * level - window
        upper2  == 2 * level + window
        clipped == WindowClip(2 * v, lower2, upper2)
    IN  IF upper2 - lower2 # 0
        THEN ToUint8((clipped - lower2) * 255, upper2 - lower2)
        ELSE ToUint8(clipped - lower2, 2)

\* The 8-bit image display_slice hands to the pixmap item.
Render(imgs, cur, combo, window, level) ==
    LET src == DisplaySource(imgs, cur, combo - 1)
    IN  [p \in Pixels |-> DisplayTransform(src[p], window, level)]

\* ------------------------------------------------------- auto window
\* k-th smallest (k from 0) of the values of f.
KthSmallest(f, k) ==
    CHOOSE v \in {f[p] : p \in DOMAIN f} :
        /\ Cardinality({p \in DOMAIN f : f[p] < v}) <= k
        /\ Cardinality({p \in DOMAIN f : f[p] <= v}) > k

\* np.percentile(f, q) with q = permille / 10, linear interpolation between
\* the two closest ranks of the flattened, sorted array.
Percentile(f, permille) ==
    LET n    == Cardinality(DOMAIN f)
        pos  == permille * (n - 1)
        lo   == pos \div 1000
        frac == pos % 1000
        hi   == IF lo + 1 <= n - 1 THEN lo + 1 ELSE lo
        a    == KthSmallest(f, lo)
        b    == KthSmallest(f, hi)
    IN  Rat(1000 * a + frac * (b - a), 1000)

RatAbs(a) == [num |-> Abs(a.num), den |-> a.den]

RatMax(a, b) == IF RatLess(a, b) THEN b ELSE a

\* Mutant of OptimalWindow: the subtraction branch takes the span between the
\* two percentiles, as the normal branch does.
OptimalWindowSpan(imgs, cur, subtraction_index) ==
    LET f == IF subtraction_index >= 0
             THEN [p \in Pixels |-> Abs(imgs[cur][p] - imgs[subtraction_index][p])]
             ELSE imgs[cur]
        lo == IF subtraction_index >= 0 THEN 50 ELSE 25
        hi == IF subtraction_index >= 0 THEN 950 ELSE 975
    IN  RatSub(Percentile(f, hi), Percentile(f, lo))

\* optimal_window of auto_window (lines 287-310), before int() and the slider.
OptimalWindow(imgs, cur, subtraction_index) ==
    IF subtraction_index >= 0
    THEN LET diff == [p \in Pixels |-> Abs(imgs[cur][p] - imgs[subtraction_index][p])]
             lower_percentile == Percentile(diff, 50)
             upper_percentile == Percentile(diff, 950)
             m == RatMax(upper_percentile, RatAbs(lower_percentile))
         IN  Rat(2 * m.num, m.den)
    ELSE LET lower_percentile == Percentile(imgs[cur], 25)
             upper_percentile == Percentile(imgs[cur], 975)
         IN  RatSub(upper_percentile, lower_percentile)

\* optimal_level of auto_window.
OptimalLevel(imgs, cur, subtraction_index) ==
    IF subtraction_index >= 0
    THEN Rat(0, 1)
    ELSE LET lower_percentile == Percentile(imgs[cur], 25)
             upper_percentile == Percentile(imgs[cur], 975)
         IN  Rat(upper_percentile.num * lower_percentile.den
                   + lower_percentile.num * upper_percentile.den,
                 2 * upper_percentile.den * lower_percentile.den)

\* window_slider.setValue(int(optimal_window)): int() truncates, the slider
\* keeps the value inside its range.
AutoWindowSliderValue(imgs, cur, subtraction_index) ==
    LET w == OptimalWindow(imgs, cur, subtraction_index)
    IN  Clamp(TruncDiv(w.num, w.den), WindowSliderMin, WindowSliderMax)

\* level_slider.setValue(int(optimal_level)).
AutoLevelSliderValue(imgs, cur, subtraction_index) ==
    LET l == OptimalLevel(imgs, cur, subtraction_index)
    IN  Clamp(TruncDiv(l.num, l.den), LevelSliderMin, LevelSliderMax)

\* ------------------------------------------------------ ROI evaluation
\* int(roi_center - radius) with the centre in half pixels.
BoxStart(c2, diameter) == TruncDiv(c2 - diameter, 2)

\* Mutant of BoxOutOfBounds: the right edge is not tested.
BoxOutOfBoundsNoRightEdge(x_start, y_start, diameter) ==
    \/ x_start < 0
    \/ y_start < 0
    \/ y_start + diameter > FrameHeight

\* Lines 462 / 517: the bounds test on the truncated box.
BoxOutOfBounds(x_start, y_start, diameter) ==
    \/ x_start < 0
    \/ y_start < 0
    \/ x_start + diameter > FrameWidth
    \/ y_start + diameter > FrameHeight

\* Lines 472-474 / 532-534: mask = sqrt((X - radius)^2 + (Y - radius)^2) <=
\* radius over np.ogrid[:diameter, :diameter], radius = diameter / 2; the
\* test is taken times 4 to stay in integers.
CircularMask(diameter) ==
    {m \in (0 .. diameter - 1) \X (0 .. diameter - 1) :
        (2 * m[1] - diameter) * (2 * m[1] - diameter)
          + (2 * m[2] - diameter) * (2 * m[2] - diameter) <= diameter * diameter}

\* roi_data[mask]: the frame's values under the mask, keyed by mask pixel.
MaskedRoi(frame, x_start, y_start, diameter) ==
    [m \in CircularMask(diameter) |-> frame[<<x_start + m[1], y_start + m[2]>>]]

RECURSIVE SumOver(_, _)
SumOver(f, S) ==
    IF S = {} THEN 0
    ELSE LET e == CHOOSE x \in S : TRUE
         IN  f[e] + SumOver(f, S \ {e})

\* Mutant of RoiValue: the mean of the whole box, the mask left out.
RoiValueWholeBox(frame, x_start, y_start, diameter) ==
    LET box == (0 .. diameter - 1) \X (0 .. diameter - 1)
        roi == [m \in box |-> frame[<<x_start + m[1], y_start + m[2]>>]]
    IN  Rat(SumOver(roi, box), Cardinality(box))

\* masked_roi.mean(), or np.nan for an empty mask (lines 538-542).
RoiValue(frame, x_start, y_start, diameter) ==
    LET masked_roi == MaskedRoi(frame, x_start, y_start, diameter)
    IN  IF DOMAIN masked_roi = {}
        THEN NaN
        ELSE Rat(SumOver(masked_roi, DOMAIN masked_roi), Cardinality(DOMAIN masked_roi))

\* Mutant of RoiValues: the box and the mask are rebuilt for each slice, one
\* pixel smaller from slice to slice.
RoiValuesShrinkingMask(imgs, x_start, y_start, diameter) ==
    [i \in 1 .. NumSlices |->
        RoiValue(imgs[i - 1], x_start, y_start, diameter - (i - 1))]

\* The loop of save_roi (lines 525-544): one value per slice of the stack.
RoiValues(imgs, x_start, y_start, diameter) ==
    [i \in 1 .. NumSlices |-> RoiValue(imgs[i - 1], x_start, y_start, diameter)]

\* filter(lambda x: not np.isnan(x), roi_values)
DefinedValues(roi_values) ==
    {roi_values[i] : i \in {j \in DOMAIN roi_values : ~IsNaN(roi_values[j])}}

\* min(...) / max(...) over the defined values (lines 552-553).
MinValue(roi_values) ==
    CHOOSE v \in DefinedValues(roi_values) :
        \A u \in DefinedValues(roi_values) : ~RatLess(u, v)

MaxValue(roi_values) ==
    CHOOSE v \in DefinedValues(roi_values) :
        \A u \in DefinedValues(roi_values) : ~RatLess(v, u)

\* --------------------------------------------------------- table text
\* A table cell is a text; a number text is kept as the number it spells:
\* fmt "str" is str(x) (shortest spelling of the float num/den), fmt "2f" is
\* f"{x:.2f}" (num hundredths, den = 100), fmt "NaN" is the literal NaN.
StrCell(v) == [fmt |-> "str", num |-> v.num, den |-> v.den]

\* Round num/den to an integer, halves to even (Python's float formatting).
RoundHalfEven(num, den) ==
    LET a == Abs(num)
        q == a \div den
        r == a % den
        up == IF 2 * r > den \/ (2 * r = den /\ q % 2 = 1) THEN q + 1 ELSE q
    IN  IF num < 0 THEN -up ELSE up

\* Lines 563-565: f"{roi_val:.2f}" if not np.isnan(roi_val) else "NaN".
SliceCell(v) ==
    IF IsNaN(v)
    THEN [fmt |-> "NaN", num |-> 0, den |-> 0]
    ELSE [fmt |-> "2f", num |-> RoundHalfEven(100 * v.num, v.den), den |-> 100]

\* Digits after the decimal point in str(x) of the float num/den (lines
\* 559-561): str() spells the shortest decimal that reads back as the same
\* float and always at least one digit ("10.0", "2.5", "1.25"); 3 stands for
\* three digits or more ("33.666668").
StrDecimals(v) ==
    IF (10 * v.num) % v.den = 0 THEN 1
    ELSE IF (100 * v.num) % v.den = 0 THEN 2
    ELSE 3

\* Digits after the decimal point in the text of a table cell; the text NaN
\* has none.
CellDecimals(cell) ==
    IF cell.fmt = "2f" THEN 2
    ELSE IF cell.fmt = "str" THEN StrDecimals(cell)
    ELSE 0

\* Lines 556-565: the row save_roi appends.
TableRow(roi_name, roi_values) ==
    [name   |-> roi_name,
     min    |-> StrCell(MinValue(roi_values)),
     max    |-> StrCell(MaxValue(roi_values)),
     diff   |-> StrCell(RatSub(MaxValue(roi_values), MinValue(roi_values))),
     slices |-> [i \in DOMAIN roi_values |-> SliceCell(roi_values[i])]]

\* ---------------------------------------------------------- ROI name
IsSpace(c) == c \in {" ", "\t"}

RECURSIVE LStrip(_)
LStrip(t) == IF t # <<>> /\ IsSpace(Head(t)) THEN LStrip(Tail(t)) ELSE t

RECURSIVE RStrip(_)
RStrip(t) ==
    IF t # <<>> /\ IsSpace(t[Len(t)]) THEN RStrip(SubSeq(t, 1, Len(t) - 1)) ELSE t

\* Mutant of Strip: the text is taken as typed.
StripNothing(t) == t

\* str.strip(): a text is a sequence of characters.
Strip(t) == RStrip(LStrip(t))

\* --------------------------------------------------------- user input
\* ROI centres the user drags the ROI to, in half pixels: the image centre
\* (where create_roi puts it) and one spot toward each edge of the frame.
Centre2 == <<FrameWidth, FrameHeight>>

Positions2 ==
    {Centre2,
     <<1, FrameHeight>>,
     <<FrameWidth, 0>>,
     <<2 * FrameWidth, FrameHeight>>,
     <<FrameWidth, 2 * FrameHeight>>}

\* Texts typed into the ROI name field.
NameInputs == {<<>>, <<" ">>, <<"A", " ">>}

WindowInputs ==
    {w \in 1 .. MaxWindow : w >= WindowSliderMin /\ w <= WindowSliderMax}

LevelInputs ==
    {l \in -MaxLevel .. MaxLevel : l >= LevelSliderMin /\ l <= LevelSliderMax}

DiameterInputs ==
    {d \in 1 .. MaxDiameter : d >= DiameterSliderMin /\ d <= DiameterSliderMax}

\* ------------------------------------------------------------ reports
\* The message box (or, for auto_window, the console line) a button handler
\* ends with; min_val / max_val carry the numbers of the analysis box.
Report(msg) == [msg |-> msg, min_val |-> 0, max_val |-> 0]

Silent == Report("none")

\* header row of the CSV (lines 597-598); f'Slice{i}' is kept as <<"Slice", i>>.
CsvHeaders ==
    <<"Name", "Min Value", "Max Value", "Difference">>
      \o [i \in 1 .. NumSlices |-> <<"Slice", i - 1>>]

\* ---------------------------------------------------- upload endpoint
\* The server threads that run index() side by side (app.run starts the
\* threaded development server; nothing in app.py serialises the requests).
Workers == 1 .. NumWorkers

\* file.filename values the clients send.
FileNames == {"a.png", "b.png"}

\* The bytes of the image the client of thread w uploads, in the NumChunks
\* pieces file.save() writes one after another; every client sends its own
\* image.
UploadedFile(w) == [k \in 1 .. NumChunks |-> <<w, k>>]

\* Bytes the file system fills in when a write lands past the end of a file.
Hole == <<0, 0>>

\* A file after a write of chunk at position k through a descriptor of its own.
WriteAt(content, k, chunk) ==
    [i \in 1 .. (IF Len(content) > k THEN Len(content) ELSE k) |->
        IF i = k THEN chunk
        ELSE IF i <= Len(content) THEN content[i]
        ELSE Hole]

\* The file holds the whole of one uploaded image.
IsUploadedImage(content) == \E w \in Workers : content = UploadedFile(w)

\* load_and_preprocess_image (lines 26-32): the tensor is a function of the
\* bytes found at the path.
Preprocess(content) == <<"tensor", content>>

\* model(input_image) and save_output (lines 65-70): the PNG is a function of
\* the input tensor.
ModelOutput(input_image) == <<"png", input_image>>

NoResponse == [status |-> 0, body |-> <<>>]

\* A thread that waits for a request.
Waiting ==
    [pc |-> "accept", method |-> "", filename |-> "", written |-> 0,
     input_image |-> <<>>, response |-> NoResponse]

\* -------------------------------------------------------------- Init
\* __init__ + load_images + initUI: sliders at their initial values, 'None'
\* selected, overlay shown, the ROI centred with the default diameter, empty
\* table and registry, first slice rendered.
Init ==
    /\ images = LoadedStack
    /\ current_slice = 0
    /\ window_slider = WindowSliderInit
    /\ level_slider = LevelSliderInit
    /\ subtraction_combo = 0
    /\ overlay_checkbox = TRUE
    /\ roi_diameter = DefaultRoiDiameter
    /\ roi_pos2 = Centre2
    /\ roi_name_input = <<>>
    /\ roi_data = [n \in {} |-> <<>>]
    /\ roi_table = <<>>
    /\ csv_file = [written |-> FALSE, headers |-> <<>>, rows |-> <<>>]
    /\ pixmap = Render(LoadedStack, 0, 0, WindowSliderInit, LevelSliderInit)
    /\ report = Silent
    /\ pc = "idle"
    /\ upload_folder = [f \in FileNames |-> <<>>]
    /\ request = [w \in Workers |-> Waiting]

\* ----------------------------------------------------------- actions
\* display_slice() with the control values the handler has just set.
display_slice(cur, combo, window, level) ==
    /\ pixmap' = Render(images, cur, combo, window, level)
    /\ images' = StackAfterDisplay(images, cur, combo - 1)

\* update_slice(value): the slice slider moved.
update_slice(value) ==
    /\ pc = "idle"
    /\ value # current_slice
    /\ current_slice' = value
    /\ display_slice(value, subtraction_combo, window_slider, level_slider)
    /\ report' = Silent
    /\ UNCHANGED <<window_slider, level_slider, subtraction_combo, overlay_checkbox,
                   roi_diameter, roi_pos2, roi_name_input, roi_data, roi_table,
                   csv_file, pc>>
    /\ UNCHANGED server_vars

\* update_window_level(): the window slider moved.
update_window(value) ==
    /\ pc = "idle"
    /\ value # window_slider
    /\ window_slider' = value
    /\ display_slice(current_slice, subtraction_combo, value, level_slider)
    /\ report' = Silent
    /\ UNCHANGED <<current_slice, level_slider, subtraction_combo, overlay_checkbox,
                   roi_diameter, roi_pos2, roi_name_input, roi_data, roi_table,
                   csv_file, pc>>
    /\ UNCHANGED server_vars

\* update_window_level(): the level slider moved.
update_level(value) ==
    /\ pc = "idle"
    /\ value # level_slider
    /\ level_slider' = value
    /\ display_slice(current_slice, subtraction_combo, window_slider, value)
    /\ report' = Silent
    /\ UNCHANGED <<current_slice, window_slider, subtraction_combo, overlay_checkbox,
                   roi_diameter, roi_pos2, roi_name_input, roi_data, roi_table,
                   csv_file, pc>>
    /\ UNCHANGED server_vars

\* update_roi_diameter(value): the diameter slider moved.
update_roi_diameter(value) ==
    /\ pc = "idle"
    /\ value # roi_diameter
    /\ roi_diameter' = value
    /\ display_slice(current_slice, subtraction_combo, window_slider, level_slider)
    /\ report' = Silent
    /\ UNCHANGED <<current_slice, window_slider, level_slider, subtraction_combo,
                   overlay_checkbox, roi_pos2, roi_name_input, roi_data, roi_table,
                   csv_file, pc>>
    /\ UNCHANGED server_vars

\* subtraction_combo.currentIndexChanged -> display_slice.
select_subtraction(combo_index) ==
    /\ pc = "idle"
    /\ combo_index # subtraction_combo
    /\ subtraction_combo' = combo_index
    /\ display_slice(current_slice, combo_index, window_slider, level_slider)
    /\ report' = Silent
    /\ UNCHANGED <<current_slice, window_slider, level_slider, overlay_checkbox,
                   roi_diameter, roi_pos2, roi_name_input, roi_data, roi_table,
                   csv_file, pc>>
    /\ UNCHANGED server_vars

\* overlay_checkbox.stateChanged -> display_slice (which shows or hides the ROI).
toggle_overlay ==
    /\ pc = "idle"
    /\ overlay_checkbox' = ~overlay_checkbox
    /\ display_slice(current_slice, subtraction_combo, window_slider, level_slider)
    /\ report' = Silent
    /\ UNCHANGED <<current_slice, window_slider, level_slider, subtraction_combo,
                   roi_diameter, roi_pos2, roi_name_input, roi_data, roi_table,
                   csv_file, pc>>
    /\ UNCHANGED server_vars

\* The user drags the ROI item (ItemIsMovable, line 341); a hidden item takes
\* no mouse events.
move_roi(p2) ==
    /\ pc = "idle"
    /\ overlay_checkbox
    /\ p2 # roi_pos2
    /\ roi_pos2' = p2
    /\ report' = Silent
    /\ UNCHANGED <<images, current_slice, window_slider, level_slider,
                   subtraction_combo, overlay_checkbox, roi_diameter, roi_name_input,
                   roi_data, roi_table, csv_file, pixmap, pc>>
    /\ UNCHANGED server_vars

\* The user edits the ROI name field.
edit_roi_name(text) ==
    /\ pc = "idle"
    /\ text # roi_name_input
    /\ roi_name_input' = text
    /\ report' = Silent
    /\ UNCHANGED <<images, current_slice, window_slider, level_slider,
                   subtraction_combo, overlay_checkbox, roi_diameter, roi_pos2,
                   roi_data, roi_table, csv_file, pixmap, pc>>
    /\ UNCHANGED server_vars

\* auto_window, lines 278-313: compute the optimal window and level and set the
\* window slider; a changed slider value fires update_window_level at once.
auto_window ==
    /\ pc = "idle"
    /\ LET value == AutoWindowSliderValue(images, current_slice, subtraction_combo - 1)
       IN  /\ window_slider' = value
           /\ IF value # window_slider
              THEN display_slice(current_slice, subtraction_combo, value, level_slider)
              ELSE UNCHANGED <<pixmap, images>>
    /\ pc' = "auto_window_level"
    /\ report' = Silent
    /\ UNCHANGED <<current_slice, level_slider, subtraction_combo, overlay_checkbox,
                   roi_diameter, roi_pos2, roi_name_input, roi_data, roi_table,
                   csv_file>>
    /\ UNCHANGED server_vars

\* auto_window, lines 314-317: set the level slider, then display_slice().
auto_window_level ==
    /\ pc = "auto_window_level"
    /\ LET value == AutoLevelSliderValue(images, current_slice, subtraction_combo - 1)
       IN  /\ level_slider' = value
           /\ display_slice(current_slice, subtraction_combo, window_slider, value)
    /\ pc' = "idle"
    /\ report' = Report(IF subtraction_combo - 1 >= 0
                        THEN "auto_window:subtraction"
                        ELSE "auto_window:normal")
    /\ UNCHANGED <<current_slice, window_slider, subtraction_combo, overlay_checkbox,
                   roi_diameter, roi_pos2, roi_name_input, roi_data, roi_table,
                   csv_file>>
    /\ UNCHANGED server_vars

\* current_image[y_start:y_start + diameter, x_start:x_start + diameter] has
\* the mask's shape (diameter, diameter) only when the box lies in the frame;
\* numpy shortens a slice that leaves the array, and the boolean index
\* roi_data[mask] then raises IndexError.
SliceMatchesMask(x_start, y_start, diameter) ==
    /\ x_start >= 0
    /\ y_start >= 0
    /\ x_start + diameter <= FrameWidth
    /\ y_start + diameter <= FrameHeight

MinOver(f) == CHOOSE v \in {f[m] : m \in DOMAIN f} : \A u \in DOMAIN f : f[u] >= v

MaxOver(f) == CHOOSE v \in {f[m] : m \in DOMAIN f} : \A u \in DOMAIN f : f[u] <= v

\* What analyze_roi reports (lines 446-491).
AnalyzeOutcome(imgs, cur, overlay, pos2, diameter) ==
    LET x_start == BoxStart(pos2[1], diameter)
        y_start == BoxStart(pos2[2], diameter)
    IN  IF ~overlay THEN Report("analyze:hidden")
        ELSE IF BoxOutOfBounds(x_start, y_start, diameter)
        THEN Report("analyze:out_of_bounds")
        ELSE IF ~SliceMatchesMask(x_start, y_start, diameter)
        THEN Report("analyze:IndexError")
        ELSE LET masked_roi == MaskedRoi(imgs[cur], x_start, y_start, diameter)
             IN  IF DOMAIN masked_roi = {}
                 THEN Report("analyze:empty")
                 ELSE [msg |-> "analyze:ok",
                       min_val |-> MinOver(masked_roi),
                       max_val |-> MaxOver(masked_roi)]

\* analyze_roi: a read of the current slice; only the message box changes.
analyze_roi ==
    /\ pc = "idle"
    /\ report' = AnalyzeOutcome(images, current_slice, overlay_checkbox,
                                roi_pos2, roi_diameter)
    /\ UNCHANGED <<images, current_slice, window_slider, level_slider,
                   subtraction_combo, overlay_checkbox, roi_diameter, roi_pos2,
                   roi_name_input, roi_data, roi_table, csv_file, pixmap, pc>>
    /\ UNCHANGED server_vars

\* How far save_roi gets (lines 495-568): the guard that stops it, the
\* exception that ends it, or "save:saved".
SaveOutcome(imgs, overlay, name_text, pos2, diameter) ==
    LET x_start == BoxStart(pos2[1], diameter)
        y_start == BoxStart(pos2[2], diameter)
    IN  IF ~overlay THEN "save:hidden"
        ELSE IF Strip(name_text) = <<>> THEN "save:invalid_name"
        ELSE IF BoxOutOfBounds(x_start, y_start, diameter) THEN "save:out_of_bounds"
        ELSE IF ~SliceMatchesMask(x_start, y_start, diameter) THEN "save:IndexError"
        ELSE IF DefinedValues(RoiValues(imgs, x_start, y_start, diameter)) = {}
        THEN "save:ValueError"
        ELSE "save:saved"

\* self.roi_data[roi_name] = roi_values (line 547).
RegistryPut(registry, roi_name, roi_values) ==
    [n \in DOMAIN registry \cup {roi_name} |->
        IF n = roi_name THEN roi_values ELSE registry[n]]

\* self.roi_data after save_roi: line 547 runs once the loop is through, that
\* is before min() raises ValueError on a list without a defined value.
RegistryAfterSave(registry, outcome, roi_name, roi_values) ==
    IF outcome \in {"save:saved", "save:ValueError"}
    THEN RegistryPut(registry, roi_name, roi_values)
    ELSE registry

\* The rows of self.roi_table after save_roi: insertRow at rowCount().
TableAfterSave(table, outcome, roi_name, roi_values) ==
    IF outcome = "save:saved"
    THEN Append(table, TableRow(roi_name, roi_values))
    ELSE table

\* save_roi. An uncaught exception leaves the slot with what was assigned
\* before it (PyQt prints the traceback, or aborts the process, after which
\* nothing more happens); MaxRows caps the table.
save_roi ==
    /\ pc = "idle"
    /\ LET outcome    == SaveOutcome(images, overlay_checkbox, roi_name_input,
                                     roi_pos2, roi_diameter)
           roi_name   == Strip(roi_name_input)
           x_start    == BoxStart(roi_pos2[1], roi_diameter)
           y_start    == BoxStart(roi_pos2[2], roi_diameter)
           roi_values == RoiValues(images, x_start, y_start, roi_diameter)
       IN  /\ outcome = "save:saved" => Len(roi_table) < MaxRows
           /\ roi_data' = RegistryAfterSave(roi_data, outcome, roi_name, roi_values)
           /\ roi_table' = TableAfterSave(roi_table, outcome, roi_name, roi_values)
           /\ report' = Report(outcome)
    /\ UNCHANGED <<images, current_slice, window_slider, level_slider,
                   subtraction_combo, overlay_checkbox, roi_diameter, roi_pos2,
                   roi_name_input, csv_file, pixmap, pc>>
    /\ UNCHANGED server_vars

\* What save_to_csv writes (lines 596-611): the headers and every table row.
CsvOf(table) == [written |-> TRUE, headers |-> CsvHeaders, rows |-> table]

\* save_to_csv; dialog is what the file dialog and the write come to:
\* "cancel" (no file name), "write" (to_csv succeeds) or "fail" (to_csv raises).
save_to_csv(dialog) ==
    /\ pc = "idle"
    /\ IF Len(roi_table) = 0
       THEN /\ dialog = "cancel"
            /\ report' = Report("csv:no_data")
            /\ UNCHANGED csv_file
       ELSE IF dialog = "write"
       THEN /\ csv_file' = CsvOf(roi_table)
            /\ report' = Report("csv:saved")
       ELSE /\ report' = IF dialog = "cancel" THEN Silent ELSE Report("csv:failed")
            /\ UNCHANGED csv_file
    /\ UNCHANGED <<images, current_slice, window_slider, level_slider,
                   subtraction_combo, overlay_checkbox, roi_diameter, roi_pos2,
                   roi_name_input, roi_data, roi_table, pixmap, pc>>
    /\ UNCHANGED server_vars

\* index(), lines 48-54, on thread w: a GET gets the form, a POST without a
\* file part or with an empty file name gets a 400, any other POST goes on to
\* save the upload.
index(w, method, has_file, filename) ==
    /\ request[w].pc = "accept"
    /\ request' = [request EXCEPT ![w] =
          IF method = "GET"
          THEN [Waiting EXCEPT !.pc = "done", !.method = method,
                               !.response = [status |-> 200, body |-> <<"index.html">>]]
          ELSE IF ~has_file
          THEN [Waiting EXCEPT !.pc = "done", !.method = method,
                               !.response = [status |-> 400, body |-> <<"No file part">>]]
          ELSE IF filename = ""
          THEN [Waiting EXCEPT !.pc = "done", !.method = method,
                               !.response = [status |-> 400, body |-> <<"No selected file">>]]
          ELSE [Waiting EXCEPT !.pc = "save_open", !.method = method,
                               !.filename = filename]]
    /\ UNCHANGED upload_folder
    /\ UNCHANGED viewer_vars

\* file.save(file_path), line 58: open(file_path, "wb") empties the file.
save_open(w) ==
    /\ request[w].pc = "save_open"
    /\ upload_folder' = [upload_folder EXCEPT ![request[w].filename] = <<>>]
    /\ request' = [request EXCEPT ![w].pc = "save_write"]
    /\ UNCHANGED viewer_vars

\* file.save(file_path), line 58: the next chunk of the upload is written at
\* the position this thread's descriptor has reached.
save_write(w) ==
    /\ request[w].pc = "save_write"
    /\ LET k == request[w].written + 1
       IN  /\ upload_folder' =
                [upload_folder EXCEPT ![request[w].filename] =
                    WriteAt(@, k, UploadedFile(w)[k])]
           /\ request' = [request EXCEPT ![w].written = k,
                                         ![w].pc = IF k = NumChunks THEN "load"
                                                   ELSE "save_write"]
    /\ UNCHANGED viewer_vars

\* Image.open(...).convert('L') cannot read the file: it is cut short, or it
\* starts with filled-in bytes where the image header should be.
Unreadable(content) ==
    \/ Len(content) < NumChunks
    \/ content[1] = Hole

\* load_and_preprocess_image(file_path), line 62: the path is read again. A
\* whole uploaded image decodes; an unreadable file makes PIL raise; a file of
\* full length put together from several writes either decodes to what it
\* holds or makes PIL raise (decodes picks which). An exception is answered
\* with a 500 (lines 73-77).
load_and_preprocess_image(w, decodes) ==
    /\ request[w].pc = "load"
    /\ LET content == upload_folder[request[w].filename]
           raises  == Unreadable(content) \/ ~decodes
       IN  /\ IsUploadedImage(content) => decodes
           /\ Unreadable(content) => ~decodes
           /\ request' = [request EXCEPT ![w] =
                 IF raises
                 THEN [@ EXCEPT !.pc = "done",
                                !.response = [status |-> 500,
                                              body |-> <<"Error during processing">>]]
                 ELSE [@ EXCEPT !.pc = "model",
                                !.input_image = Preprocess(content)]]
    /\ UNCHANGED upload_folder
    /\ UNCHANGED viewer_vars

\* Lines 65-71: run the model on the tensor and send the PNG.
run_model(w) ==
    /\ request[w].pc = "model"
    /\ request' = [request EXCEPT ![w].pc = "done",
                                  ![w].response =
                                      [status |-> 200,
                                       body |-> ModelOutput(request[w].input_image)]]
    /\ UNCHANGED upload_folder
    /\ UNCHANGED viewer_vars

\* The response has gone out and the thread waits for the next request.
next_request(w) ==
    /\ request[w].pc = "done"
    /\ request' = [request EXCEPT ![w] = Waiting]
    /\ UNCHANGED upload_folder
    /\ UNCHANGED viewer_vars

\* -------------------------------------------------------------- Next
\* Every handler of the viewer, in any order. The inputs of this
\* specification are few (one user window, one user level, one diameter, two
\* ROI centres, one name); SpecRoi and SpecDisplay widen them for the ROI
\* handlers and for the display handlers.
Next ==
    \/ \E value \in Slices : update_slice(value)
    \/ \E value \in {WindowSliderMin} : update_window(value)
    \/ \E value \in {0} : update_level(value)
    \/ \E value \in {2} : update_roi_diameter(value)
    \/ \E combo_index \in 0 .. NumSlices : select_subtraction(combo_index)
    \/ toggle_overlay
    \/ \E p2 \in {Centre2, <<1, FrameHeight>>} : move_roi(p2)
    \/ \E text \in {<<"A">>} : edit_roi_name(text)
    \/ auto_window
    \/ auto_window_level
    \/ analyze_roi
    \/ save_roi
    \/ \E dialog \in {"cancel", "write", "fail"} : save_to_csv(dialog)

Spec == Init /\ [][Next]_vars

\* The ROI handlers (and the slice slider, which picks the slice analyze_roi
\* reads) over every ROI centre, diameter and name of the input sets.
NextRoi ==
    \/ \E value \in Slices : update_slice(value)
    \/ \E value \in DiameterInputs : update_roi_diameter(value)
    \/ toggle_overlay
    \/ \E p2 \in Positions2 : move_roi(p2)
    \/ \E text \in NameInputs : edit_roi_name(text)
    \/ analyze_roi
    \/ save_roi

SpecRoi == Init /\ [][NextRoi]_vars

\* The display handlers over every slice, subtraction choice, window and
\* level of the input sets.
NextDisplay ==
    \/ \E value \in Slices : update_slice(value)
    \/ \E value \in WindowInputs : update_window(value)
    \/ \E value \in LevelInputs : update_level(value)
    \/ \E combo_index \in 0 .. NumSlices : select_subtraction(combo_index)
    \/ toggle_overlay
    \/ auto_window
    \/ auto_window_level

SpecDisplay == Init /\ [][NextDisplay]_vars

\* The upload endpoint: every thread takes requests one after another, the
\* steps of different threads in any order.
NextUpload ==
    \/ \E w \in Workers, method \in {"GET", "POST"}, has_file \in BOOLEAN,
          filename \in FileNames \cup {""} : index(w, method, has_file, filename)
    \/ \E w \in Workers : save_open(w)
    \/ \E w \in Workers : save_write(w)
    \/ \E w \in Workers, decodes \in BOOLEAN : load_and_preprocess_image(w, decodes)
    \/ \E w \in Workers : run_model(w)
    \/ \E w \in Workers : next_request(w)

SpecUpload == Init /\ [][NextUpload]_vars

\* ============================================================ claims
\* Vocabulary of the claims, stated in their own terms.

\* The truncated bounding box of the ROI leaves the frame on some side.
ClaimBoxOutside ==
    LET x_start == BoxStart(roi_pos2[1], roi_diameter)
        y_start == BoxStart(roi_pos2[2], roi_diameter)
    IN  \/ x_start < 0
        \/ y_start < 0
        \/ x_start + roi_diameter > FrameWidth
        \/ y_start + roi_diameter > FrameHeight

\* A name that is empty or made of blanks only.
ClaimBlank(text) == \A i \in 1 .. Len(text) : text[i] = " "

\* Pixel (X, Y) of the d x d box lies in the circle:
\* (X - r)^2 + (Y - r)^2 <= r^2 with r = d / 2, taken times 4.
ClaimInCircle(X, Y, d) ==
    (2 * X - d) * (2 * X - d) + (2 * Y - d) * (2 * Y - d) <= d * d

ClaimMask(d) == {m \in (0 .. d - 1) \X (0 .. d - 1) : ClaimInCircle(m[1], m[2], d)}

OutOfBoundsReports == {"analyze:out_of_bounds", "save:out_of_bounds"}

RegistryAndRoiUnchanged ==
    UNCHANGED <<roi_data, roi_table, images, current_slice, roi_pos2, roi_diameter>>

\* C1 as stated: whenever the truncated bounding box of the ROI leaves the
\* frame, analyze_roi and save_roi end with the out-of-bounds report and leave
\* the registry, the table rows, the stack, the current slice and the ROI
\* unchanged.
C1_OutOfBoundsAlwaysReported ==
    [][((analyze_roi \/ save_roi) /\ ClaimBoxOutside)
         => (report'.msg \in OutOfBoundsReports /\ RegistryAndRoiUnchanged)]_vars

\* C1 amended: whenever the truncated bounding box of the ROI leaves the frame,
\* analyze_roi and save_roi leave the registry, the table rows, the stack, the
\* current slice and the ROI unchanged; the report is the out-of-bounds one
\* when the overlay is shown and, for save_roi, the name is not blank (the
\* hidden-overlay and invalid-name reports come first).
C1_OutOfBoundsAborts ==
    [][((analyze_roi \/ save_roi) /\ ClaimBoxOutside)
         => /\ RegistryAndRoiUnchanged
            /\ (analyze_roi /\ overlay_checkbox)
                 => report'.msg = "analyze:out_of_bounds"
            /\ (save_roi /\ overlay_checkbox /\ ~ClaimBlank(roi_name_input))
                 => report'.msg = "save:out_of_bounds"
            /\ ~overlay_checkbox => report'.msg \in {"analyze:hidden", "save:hidden"}]_vars

\* C1 witness: save_roi has just refused a ROI of a user-chosen diameter whose
\* box passes the right or bottom edge only.
C1_Witness ==
    /\ report.msg = "save:out_of_bounds"
    /\ roi_diameter <= MaxDiameter
    /\ BoxStart(roi_pos2[1], roi_diameter) >= 0
    /\ BoxStart(roi_pos2[2], roi_diameter) >= 0
    /\ ClaimBoxOutside

\* C2 as stated: a save with a valid name and an in-bounds ROI whose mask is
\* empty on every slice fails and gives neither roi_data nor the table an
\* entry for the name.
C2_AllUndefinedNotRegistered ==
    [][(/\ save_roi
        /\ overlay_checkbox
        /\ ~ClaimBlank(roi_name_input)
        /\ ~ClaimBoxOutside
        /\ ClaimMask(roi_diameter) = {})
         => /\ report'.msg # "save:saved"
            /\ roi_data' = roi_data
            /\ roi_table' = roi_table]_vars

\* C3 as stated: the table (and the exported CSV) holds exactly one row per
\* name of roi_data: no two rows share a name and the row names are the keys.
C3_OneRowPerNamedRoi ==
    /\ \A i, j \in 1 .. Len(roi_table) :
          i # j => roi_table[i].name # roi_table[j].name
    /\ {roi_table[i].name : i \in 1 .. Len(roi_table)} = DOMAIN roi_data
    /\ \A i, j \in 1 .. Len(csv_file.rows) :
          i # j => csv_file.rows[i].name # csv_file.rows[j].name

\* C4 as stated: save_roi with an empty or blank name reports an invalid name
\* and leaves roi_data and the table rows unchanged.
C4_BlankNameAlwaysInvalid ==
    [][(save_roi /\ ClaimBlank(roi_name_input))
         => /\ report'.msg = "save:invalid_name"
            /\ UNCHANGED <<roi_data, roi_table>>]_vars

\* C4 amended: save_roi with an empty or blank name leaves roi_data and the
\* table rows unchanged whatever the ROI position and diameter; it reports an
\* invalid name when the overlay is shown, and the hidden overlay otherwise.
C4_BlankNameRegistersNothing ==
    [][(save_roi /\ ClaimBlank(roi_name_input))
         => /\ UNCHANGED <<roi_data, roi_table>>
            /\ report'.msg = IF overlay_checkbox THEN "save:invalid_name"
                                                 ELSE "save:hidden"]_vars

\* C4 witness: a blank (not empty) name was refused for a ROI that a proper
\* name would have saved.
C4_Witness ==
    /\ report.msg = "save:invalid_name"
    /\ roi_name_input = <<" ">>
    /\ ~ClaimBoxOutside
    /\ ClaimMask(roi_diameter) # {}

\* Entry v is the mean of the masked pixels of slice i (from 0) for the
\* current ROI, or undefined when the mask is empty.
ClaimEntryOfSlice(v, i) ==
    LET x_start == BoxStart(roi_pos2[1], roi_diameter)
        y_start == BoxStart(roi_pos2[2], roi_diameter)
        mask    == ClaimMask(roi_diameter)
        pixel   == [m \in mask |-> images[i][<<x_start + m[1], y_start + m[2]>>]]
    IN  IF mask = {}
        THEN IsNaN(v)
        ELSE ~IsNaN(v) /\ v.num * Cardinality(mask) = v.den * SumOver(pixel, mask)

\* The min, max and difference cells of row are taken over the defined
\* entries of values, and the difference is max - min.
ClaimRowAggregates(row, values) ==
    LET defined == {values[i] : i \in {j \in DOMAIN values : ~IsNaN(values[j])}}
        lo == [num |-> row.min.num, den |-> row.min.den]
        hi == [num |-> row.max.num, den |-> row.max.den]
    IN  /\ lo \in defined
        /\ hi \in defined
        /\ \A u \in defined : ~RatLess(u, lo) /\ ~RatLess(hi, u)
        /\ row.diff.den > 0
        /\ row.diff.num * hi.den * lo.den
             = (hi.num * lo.den - lo.num * hi.den) * row.diff.den

C6_LeftOverhangRejected ==
    [][(/\ \/ analyze_roi /\ overlay_checkbox
           \/ save_roi /\ overlay_checkbox /\ ~ClaimBlank(roi_name_input)
        /\ roi_pos2[1] - roi_diameter < 0)
         => report'.msg \in OutOfBoundsReports]_vars

\* C7 as stated: the mask analyze_roi and save_roi build for an in-frame ROI of
\* diameter d leaves out the four corner pixels of the d x d box.
C7_CornersExcluded ==
    report.msg \in {"analyze:ok", "save:saved"}
      => \A c \in {0, roi_diameter - 1} \X {0, roi_diameter - 1} :
            c \notin CircularMask(roi_diameter)

\* The array display_slice windows in the current state, and the window
\* bounds in half units.
ClaimSource == DisplaySource(images, current_slice, subtraction_combo - 1)

ClaimLower2 == 2 * level_slider - window_slider

ClaimUpper2 == 2 * level_slider + window_slider

\* C8: every displayed pixel lies in 0..255; source values at or below the
\* lower window bound show as 0, those at or above the upper bound as 255, and
\* the mapping keeps the order of the source values (no wrap-around).
C8_DisplayRange ==
    /\ window_slider > 0
    /\ \A p \in Pixels :
          /\ pixmap[p] \in 0 .. 255
          /\ 2 * ClaimSource[p] <= ClaimLower2 => pixmap[p] = 0
          /\ 2 * ClaimSource[p] >= ClaimUpper2 => pixmap[p] = 255
    /\ \A p, q \in Pixels : ClaimSource[p] <= ClaimSource[q] => pixmap[p] <= pixmap[q]

\* C8 witness: a subtraction image on display with pixels below, inside and
\* above the window.
C8_Witness ==
    /\ subtraction_combo >= 1
    /\ \E p, q, r \in Pixels :
          /\ 2 * ClaimSource[p] < ClaimLower2
          /\ 2 * ClaimSource[q] > ClaimUpper2
          /\ pixmap[r] \in 1 .. 254

\* p-th percentile (in permille) of the absolute difference between the
\* current slice and the subtraction slice.
ClaimAbsDiffPercentile(permille) ==
    Percentile([p \in Pixels |->
                   Abs(images[current_slice][p] - images[subtraction_combo - 1][p])],
               permille)

\* 2 * max(p95, |p5|) as a rational.
ClaimSubtractionWindow ==
    LET p5  == RatAbs(ClaimAbsDiffPercentile(50))
        p95 == ClaimAbsDiffPercentile(950)
        m   == IF RatLess(p95, p5) THEN p5 ELSE p95
    IN  [num |-> 2 * m.num, den |-> m.den]

\* C9 as stated: after auto_window in subtraction mode the window in effect is
\* exactly 2 * max(p95, |p5|) and the level is 0.
C9_ExactSubtractionWindow ==
    report.msg = "auto_window:subtraction"
      => /\ window_slider * ClaimSubtractionWindow.den = ClaimSubtractionWindow.num
         /\ level_slider = 0

\* C9 amended: after auto_window in subtraction mode the window in effect is
\* 2 * max(p95, |p5|) cut to an integer and held inside the window slider's
\* range 1..4096 (so 1 when the two slices are the same), and the level is 0.
C9_SubtractionWindow ==
    report.msg = "auto_window:subtraction"
      => LET w == ClaimSubtractionWindow.num \div ClaimSubtractionWindow.den
         IN  /\ window_slider = IF w < 1 THEN 1 ELSE IF w > 4096 THEN 4096 ELSE w
             /\ level_slider = 0

\* C9 witness: auto_window has run on the difference of two different slices
\* and found a window wider than the slider's minimum.
C9_Witness ==
    /\ report.msg = "auto_window:subtraction"
    /\ subtraction_combo - 1 # current_slice
    /\ window_slider > 1
    /\ ClaimSubtractionWindow.den > 1

\* C10: the stack never differs from what load_images built: no handler
\* changes a pixel, the frame shape or the number of frames.
C10_StackImmutable == images = LoadedStack

\* C10 witness: the stack after a subtraction render, an auto-window, a save
\* and a CSV export.
C10_Witness ==
    /\ subtraction_combo >= 1
    /\ window_slider # WindowSliderInit
    /\ Len(roi_table) >= 1
    /\ csv_file.written

\* The 8-bit image of the array src under the window and level in effect.
ClaimRendered(src) ==
    [p \in Pixels |-> DisplayTransform(src[p], window_slider, level_slider)]

\* Elementwise difference of slice cur minus slice sub of the stack.
ClaimDifference(cur, sub) == [p \in Pixels |-> images[cur][p] - images[sub][p]]

\* C11: with no selection the image on display is the windowed current slice,
\* with a valid subtraction index it is the windowed elementwise difference
\* current slice minus subtraction slice, and display_slice run on the current
\* state with an index at or past the number of slices gives the windowed
\* current slice as well (it does not fail).
C11_SubtractionFallback ==
    /\ subtraction_combo - 1 \notin Slices
         => pixmap = ClaimRendered(images[current_slice])
    /\ subtraction_combo - 1 \in Slices
         => pixmap = ClaimRendered(ClaimDifference(current_slice, subtraction_combo - 1))
    /\ \A subtraction_index \in NumSlices .. NumSlices + 1 :
          Render(images, current_slice, subtraction_index + 1, window_slider,
                 level_slider) = ClaimRendered(images[current_slice])

\* C11 witness: a valid subtraction of another slice is on display and the
\* image differs from the un-subtracted one.
C11_Witness ==
    /\ subtraction_combo - 1 \in Slices
    /\ subtraction_combo - 1 # current_slice
    /\ pixmap # ClaimRendered(images[current_slice])
    /\ \E p \in Pixels : pixmap[p] \in 1 .. 254

\* Every numeric cell of row has exactly 2 decimal places, and a slice cell is
\* the text NaN exactly when it is not a number.
ClaimRowTwoDecimals(row) ==
    /\ CellDecimals(row.min) = 2
    /\ CellDecimals(row.max) = 2
    /\ CellDecimals(row.diff) = 2
    /\ \A i \in DOMAIN row.slices :
          \/ row.slices[i].fmt = "NaN"
          \/ row.slices[i].fmt # "NaN" /\ CellDecimals(row.slices[i]) = 2

\* C12 as stated: in every row of the table and of the written CSV, the Min
\* Value, Max Value, Difference and slice cells have exactly 2 decimal places
\* and an undefined slice value is the text NaN.
C12_TwoDecimalCells ==
    /\ \A i \in 1 .. Len(roi_table) : ClaimRowTwoDecimals(roi_table[i])
    /\ \A i \in 1 .. Len(csv_file.rows) : ClaimRowTwoDecimals(csv_file.rows[i])

\* C13 as stated: for every diameter the slider allows, the mask of an
\* in-bounds ROI selects at least one pixel, so neither analyze_roi nor
\* save_roi meets an empty mask or an undefined slice value.
C13_MaskNeverEmpty ==
    /\ (roi_diameter \in DiameterSliderMin .. DiameterSliderMax /\ ~ClaimBoxOutside)
         => CircularMask(roi_diameter) # {}
    /\ report.msg \notin {"analyze:empty", "save:ValueError"}
    /\ \A n \in DOMAIN roi_data : \A i \in DOMAIN roi_data[n] : ~IsNaN(roi_data[n][i])

\* C14: in every state the window slider is in 1..4096, the level slider in
\* -4096..4096, the ROI diameter in 1..200 and the current slice in 0..N-1,
\* so the window bounds display_slice works with are never equal
\* (upper - lower # 0) and the degenerate branch of the normalisation is not
\* taken, also when auto_window has computed a window of 0.
C14_ControlRanges ==
    /\ window_slider \in 1 .. 4096
    /\ level_slider \in -4096 .. 4096
    /\ roi_diameter \in 1 .. 200
    /\ current_slice \in 0 .. NumSlices - 1
    /\ ClaimUpper2 - ClaimLower2 # 0

\* C14 witness: auto_window has run on a slice subtracted from itself, its
\* computed window is 0, and the slider holds its minimum.
C14_Witness ==
    /\ report.msg = "auto_window:subtraction"
    /\ subtraction_combo - 1 = current_slice
    /\ ClaimSubtractionWindow.num = 0
    /\ window_slider = 1

\* The per-slice values of one ROI are all defined or all undefined.
ClaimAllOrNone(values) ==
    \/ \A i \in DOMAIN values : IsNaN(values[i])
    \/ \A i \in DOMAIN values : ~IsNaN(values[i])

\* C15: the list save_roi stores for a ROI never mixes defined and undefined
\* slice values (the box and the mask are the same for every slice), and the
\* slice cells of a table row are all numbers.
C15_AllOrNoneDefined ==
    /\ \A n \in DOMAIN roi_data : ClaimAllOrNone(roi_data[n])
    /\ \A r \in 1 .. Len(roi_table) :
          \A i \in DOMAIN roi_table[r].slices : roi_table[r].slices[i].fmt = "2f"

\* C15 witness: after a save with every slice defined (its row is in the
\* table), a save of the same name has stored a list with every slice
\* undefined.
C15_Witness ==
    /\ report.msg = "save:ValueError"
    /\ Len(roi_table) >= 1
    /\ \E n \in DOMAIN roi_data : \A i \in DOMAIN roi_data[n] : IsNaN(roi_data[n][i])

\* C16 as stated: every successful response to a POST is the model's output
\* for the file uploaded in that same request, also when requests handled side
\* by side carry the same file name.
C16_ResponseFromOwnUpload ==
    \A w \in Workers :
        (/\ request[w].pc = "done"
         /\ request[w].method = "POST"
         /\ request[w].response.status = 200)
          => request[w].response.body = ModelOutput(Preprocess(UploadedFile(w)))

====
